---- MODULE Spec2Model ----
(***************************************************************************)
(* Agent handoff and order state machine of the shopping assistant:        *)
(* the three agent roles (src/agent/agents), the tool implementations      *)
(* (src/agent/tools/implementations.py) and the OrderState projection      *)
(* (src/models/order_models.py), for one conversation (one PerJobState).   *)
(*                                                                         *)
(* ProductType is used by the implementations as an enumeration with the   *)
(* members BASIC, VARIANT and CUSTOMIZABLE whose values are the strings of *)
(* src/schemas/products.py; the model follows that use.  (The file itself  *)
(* declares a Literal alias, on which the member access of                 *)
(* implementations.py:84-88 and the call of line 142 would raise.)         *)
(* A Python None and an absent attribute are the empty sequence <<>>, a    *)
(* present value v is <<v>> where the two must be told apart.              *)
(***************************************************************************)
EXTENDS Integers, Sequences, FiniteSets, TLC

VARIABLES
    agent,                \* the live role: the Agent object the session runs
    pending_product,      \* PerJobState.pending_product (<<>> while never set)
    remote_participants,  \* room.remote_participants (identities)
    synced,               \* how this task's last sync_order_options ended
    last,                 \* the last tool call: arguments, RPCs, result
    terminated,           \* job_context.shutdown was invoked
    feQuantity,           \* quantity shown by the browser's product page
    feCart,               \* number of items in the browser's cart
    fresh,                \* a product redirect succeeded since the last handoff
    redirected,           \* a product redirect has succeeded in this conversation
    user_state,           \* AgentSession.user_state as the last event gave it
    inactivity_task,      \* setup_session_handlers' inactivity_task (<<>> None)
    presence,             \* where user_presence_task is, once it was created
    jobs,                 \* per job of the worker: its agent, state and room
    job_last              \* the last tool call of any job and its RPC targets

vars == <<agent, pending_product, remote_participants, synced, last,
          terminated, feQuantity, feCart, fresh, redirected, user_state,
          inactivity_task, presence, jobs, job_last>>

\* what setup_session_handlers keeps about the user's presence
idle == <<user_state, inactivity_task, presence>>

\* the worker's jobs seen side by side
worker == <<jobs, job_last>>

\* the one conversation the tools' actions follow
conversation == <<agent, pending_product, remote_participants, synced, last,
                  terminated, feQuantity, feCart, fresh, redirected>>

\* the OrderState of sync_order_options_impl, a local of the call: it is
\* there while that call is the last one made (<<>> is none)
current_order ==
    IF last.tool = "sync_order_options" THEN last.result.current_order
    ELSE <<>>

----------------------------------------------------------------------------
(* Bounds of the model *)

MaxProductId == 1
MaxHistory == 1
MaxQuantity == 2
MaxCart == 1

----------------------------------------------------------------------------
(* Product types, tool names *)

ProductType == {"basic", "variant", "customizable"}

\* what a caller can hand to a parameter annotated ProductType
ProductTypeInputs == ProductType \cup {"combo"}

ProductIds == 0..MaxProductId

\* redirect_url arguments, and what str.strip() makes of each
Urls == {" /product/1 "}

strip(url) == IF url = " /product/1 " THEN "/product/1" ELSE url

Identities == {"browser"}

\* the PerJobState created by entrypoint; <<>> is None
PerJobState == <<"job">>

----------------------------------------------------------------------------
(* Results of a tool implementation: an exception or a returned value,     *)
(* with the perform_rpc calls that were made on the way.                   *)

Raise(exc, msg, rpcs) ==
    [exc |-> exc, msg |-> msg, rpcs |-> rpcs, ret |-> <<>>, handoff |-> <<>>]

Return(ret, rpcs) ==
    [exc |-> "none", msg |-> "", rpcs |-> rpcs, ret |-> <<ret>>, handoff |-> <<>>]

Handoff(new_agent, ret, rpcs) ==
    [exc |-> "none", msg |-> "", rpcs |-> rpcs, ret |-> <<ret>>,
     handoff |-> <<new_agent>>]

\* response_timeout is <<>> where the call passes none
perform_rpc(method, payload, response_timeout) ==
    [method |-> method, payload |-> payload,
     response_timeout |-> response_timeout]

\* what the peer does with an RPC: it answers with a non-empty response,
\* answers with an empty one, or the call raises RpcError (disconnect,
\* timeout, remote error)
RpcOutcomes == {[kind |-> "ok"], [kind |-> "empty"], [kind |-> "RpcError"]}

----------------------------------------------------------------------------
(* The agent roles: the tools each class declares with @function_tool and  *)
(* what its constructor keeps.                                             *)

AssistantTools ==
    {"search_products", "redirect_to_product_page", "initiate_product_order",
     "redirect_to_website_page", "end_session"}

BasicOrderTaskTools ==
    {"increase_product_quantity", "decrease_product_quantity",
     "complete_order", "exit_ordering_task", "end_session"}

\* variant: the order task also declares the search tool
OrderTaskTools_leaky ==
    {"sync_order_options", "increase_product_quantity",
     "decrease_product_quantity", "select_option", "unselect_option",
     "complete_order", "exit_ordering_task", "end_session",
     "search_products"}

OrderTaskTools ==
    {"sync_order_options", "increase_product_quantity",
     "decrease_product_quantity", "select_option", "unselect_option",
     "complete_order", "exit_ordering_task", "end_session"}

\* variant: the instructions are built without reading self.state
build_instructions_stateless(state) == "none"

\* Assistant.build_instructions reads self.state.base_url and the other
\* fields of self.state: with state None it raises AttributeError
build_instructions(state) ==
    IF state = <<>> THEN "AttributeError" ELSE "none"

\* Assistant.__init__: <<>> when build_instructions raised, else the agent
Assistant(chat_ctx, state) ==
    IF build_instructions(state) # "none"
    THEN <<>>
    ELSE << [role |-> "Discovery", tools |-> AssistantTools,
             chat_ctx |-> chat_ctx, state |-> state,
             product_type |-> "none"] >>

BasicOrderTask(product_type, chat_ctx, state) ==
    [role |-> "BasicOrder", tools |-> BasicOrderTaskTools,
     chat_ctx |-> chat_ctx, state |-> state, product_type |-> product_type]

OrderTask(product_type, chat_ctx, state) ==
    [role |-> "FullOrder", tools |-> OrderTaskTools,
     chat_ctx |-> chat_ctx, state |-> state, product_type |-> product_type]

OrderRoles == {"BasicOrder", "FullOrder"}

----------------------------------------------------------------------------
(* Tools of the Discovery assistant *)

\* the vector store's answer to a query: ranked candidates, best first
SearchResults ==
    {<<>>} \cup
    { << [id |-> 1, product_type |-> t, similarity_score |-> s] >> :
         t \in ProductType, s \in {25, 85} }

\* SEARCH_PRODUCTS.critical_rules: the score, in hundredths, from which the
\* tool description tells the caller to redirect
SimilarityThreshold == 40

\* variant: the search navigates to its top candidate by itself
search_products_impl_auto_redirect(products) ==
    IF products = <<>> THEN Return(products, <<>>)
    ELSE Return(products,
                <<perform_rpc("redirectToPage", [url |-> "/product/1"], <<>>)>>)

\* the candidates of VectorStore.search_products, returned as they are
search_products_impl(products) == Return(products, <<>>)

redirect_to_website_page_impl(participants, redirect_url, out) ==
    LET rpc == perform_rpc("redirectToPage", [url |-> redirect_url], <<>>) IN
    IF participants = {}
    THEN Raise("ToolError", "No participants to redirect", <<>>)
    ELSE IF out.kind = "RpcError"
    THEN Raise("ToolError", "Failed to redirect to page", <<rpc>>)
    ELSE Return([success |-> TRUE, redirected_to |-> redirect_url], <<rpc>>)

\* variant: the pending product is stored before the RPC is awaited
redirect_to_product_page_impl_store_first(pending, participants, redirect_url, product_id, product_type, out) ==
    LET rpc == perform_rpc("redirectToPage", [url |-> strip(redirect_url)], <<>>)
        stored == << [product_id |-> product_id,
                      product_type |-> product_type] >>
    IN
    IF product_type \notin ProductType
    THEN Raise("ValueError", "Invalid product type", <<>>)
             @@ [pending_product |-> pending]
    ELSE IF participants = {}
    THEN Raise("ToolError", "No participants to redirect", <<>>)
             @@ [pending_product |-> pending]
    ELSE IF out.kind = "RpcError"
    THEN Raise("ToolError", "Failed to redirect to product page", <<rpc>>)
             @@ [pending_product |-> stored]
    ELSE Return([success |-> TRUE, redirected_to |-> redirect_url], <<rpc>>)
             @@ [pending_product |-> stored]

\* variant: a type outside the three known ones is taken to be "basic"
redirect_to_product_page_impl_default_basic(pending, participants, redirect_url, product_id, product_type, out) ==
    LET rpc == perform_rpc("redirectToPage", [url |-> strip(redirect_url)], <<>>)
        known == IF product_type \in ProductType THEN product_type
                 ELSE "basic"
    IN
    IF participants = {}
    THEN Raise("ToolError", "No participants to redirect", <<>>)
             @@ [pending_product |-> pending]
    ELSE IF out.kind = "RpcError"
    THEN Raise("ToolError", "Failed to redirect to product page", <<rpc>>)
             @@ [pending_product |-> pending]
    ELSE Return([success |-> TRUE, redirected_to |-> redirect_url], <<rpc>>)
             @@ [pending_product |->
                    << [product_id |-> product_id,
                        product_type |-> known] >>]

\* the result carries state.pending_product as the call leaves it
redirect_to_product_page_impl(pending, participants, redirect_url, product_id, product_type, out) ==
    LET rpc == perform_rpc("redirectToPage", [url |-> strip(redirect_url)], <<>>) IN
    IF product_type \notin ProductType
    THEN Raise("ValueError", "Invalid product type", <<>>)
             @@ [pending_product |-> pending]
    ELSE IF participants = {}
    THEN Raise("ToolError", "No participants to redirect", <<>>)
             @@ [pending_product |-> pending]
    ELSE IF out.kind = "RpcError"
    THEN Raise("ToolError", "Failed to redirect to product page", <<rpc>>)
             @@ [pending_product |-> pending]
    ELSE Return([success |-> TRUE, redirected_to |-> redirect_url], <<rpc>>)
             @@ [pending_product |->
                    << [product_id |-> product_id,
                        product_type |-> product_type] >>]

\* get_*_product_detail and the formatter: the product is found, the query
\* finds none (None, on which the formatter raises TypeError), or it raises
FetchOutcomes == {"found", "none", "raises"}

\* variant: state.pending_product is read without getattr's default, so a
\* state that never had the attribute raises AttributeError
initiate_product_order_impl_no_getattr(chat_ctx, pending, fetch) ==
    LET quiet(r) == r @@ [replies |-> 0, fetches |-> 0] IN
    IF pending = <<>>
    THEN quiet(Raise("AttributeError", "pending_product", <<>>))
    ELSE LET product_id == pending[1].product_id
             product_type == pending[1].product_type IN
    IF product_id = 0
    THEN quiet(Raise("ToolError", "Incomplete pending product data", <<>>))
    ELSE IF product_type \notin ProductType
    THEN quiet(Raise("ToolError", "Invalid product type in pending", <<>>))
    ELSE IF fetch # "found"
    THEN Raise("ToolError", "Failed to fetch product details", <<>>)
             @@ [replies |-> 1, fetches |-> 1]
    ELSE Handoff(IF product_type = "basic"
                 THEN BasicOrderTask(product_type, chat_ctx, PerJobState)
                 ELSE OrderTask(product_type, chat_ctx, PerJobState),
                 "we successfully fetched the details", <<>>)
             @@ [replies |-> 1, fetches |-> 1]

\* variant: only customizable products go to the full order task
initiate_product_order_impl_variant_basic(chat_ctx, pending, fetch) ==
    LET quiet(r) == r @@ [replies |-> 0, fetches |-> 0] IN
    IF pending = <<>>
    THEN quiet(Raise("ToolError", "No pending product found", <<>>))
    ELSE LET product_id == pending[1].product_id
             product_type == pending[1].product_type IN
    IF product_id = 0
    THEN quiet(Raise("ToolError", "Incomplete pending product data", <<>>))
    ELSE IF product_type \notin ProductType
    THEN quiet(Raise("ToolError", "Invalid product type in pending", <<>>))
    ELSE IF fetch # "found"
    THEN Raise("ToolError", "Failed to fetch product details", <<>>)
             @@ [replies |-> 1, fetches |-> 1]
    ELSE Handoff(IF product_type # "customizable"
                 THEN BasicOrderTask(product_type, chat_ctx, PerJobState)
                 ELSE OrderTask(product_type, chat_ctx, PerJobState),
                 "we successfully fetched the details", <<>>)
             @@ [replies |-> 1, fetches |-> 1]

\* replies and fetches count the generate_reply and get_*_product_detail
\* calls the implementation made
initiate_product_order_impl(chat_ctx, pending, fetch) ==
    LET quiet(r) == r @@ [replies |-> 0, fetches |-> 0] IN
    IF pending = <<>>
    THEN quiet(Raise("ToolError", "No pending product found", <<>>))
    ELSE LET product_id == pending[1].product_id
             product_type == pending[1].product_type IN
    IF product_id = 0
    THEN quiet(Raise("ToolError", "Incomplete pending product data", <<>>))
    ELSE IF product_type \notin ProductType
    THEN quiet(Raise("ToolError", "Invalid product type in pending", <<>>))
    ELSE IF fetch # "found"
    THEN Raise("ToolError", "Failed to fetch product details", <<>>)
             @@ [replies |-> 1, fetches |-> 1]
    ELSE Handoff(IF product_type = "basic"
                 THEN BasicOrderTask(product_type, chat_ctx, PerJobState)
                 ELSE OrderTask(product_type, chat_ctx, PerJobState),
                 "we successfully fetched the details", <<>>)
             @@ [replies |-> 1, fetches |-> 1]

\* variant: the chat context is not handed on, the new role starts empty
Assistant_initiate_product_order_no_ctx(self, pending, fetch) ==
    initiate_product_order_impl(<<>>, pending, fetch)

\* Assistant.initiate_product_order hands the implementation its own chat_ctx
Assistant_initiate_product_order(self, pending, fetch) ==
    initiate_product_order_impl(self.chat_ctx, pending, fetch)

\* variant: the job is shut down before the farewell reply is generated
end_session_impl_shutdown_first(reply_ok) ==
    IF reply_ok
    THEN Return("None", <<>>) @@ [replies |-> 1, shutdown |-> TRUE]
    ELSE Raise("ToolError", "Failed to shutdown", <<>>)
             @@ [replies |-> 0, shutdown |-> TRUE]

\* generate_reply went through or raised
end_session_impl(reply_ok) ==
    IF reply_ok
    THEN Return("None", <<>>) @@ [replies |-> 1, shutdown |-> TRUE]
    ELSE Raise("ToolError", "Failed to shutdown", <<>>)
             @@ [replies |-> 0, shutdown |-> FALSE]

----------------------------------------------------------------------------
(* OrderState and the sync response it is built from *)

\* Python's None where a string or a number is expected
PyNone == "None"

\* dict.get(key, default)
get(d, key, default) == IF key \in DOMAIN d THEN d[key] ELSE default

\* float(option_data["price"]), in cents; ValueError gives 0.0
float(price) ==
    CASE price = "1.50" -> 150
      [] price = "0.25" -> 25
      [] OTHER -> 0

Cheese == [id |-> 15, option_name |-> "Cheese", price |-> "1.50",
           stock |-> 9, qty_max |-> 2, qty |-> 1]
Bacon == [id |-> 16, option_name |-> "Bacon", price |-> "free",
          stock |-> 5, qty_max |-> 1, qty |-> 0]
Ketchup == [id |-> 21, option_name |-> "Ketchup", price |-> "0.25",
            stock |-> 7, qty_max |-> 1, qty |-> 1]

Toppings == [id |-> 3, group_name |-> "Toppings", min_options |-> 0,
             max_options |-> 2, options |-> <<Cheese, Bacon>>]
Sauces == [id |-> 4, group_name |-> "Sauces", min_options |-> 1,
           max_options |-> 1, options |-> <<Ketchup>>]

SyncKeys == {"options_groups", "current_quantity", "currency_code",
             "currency_symbol", "price", "product_name"}

\* the responses a peer can send: every field present, the groups, the
\* quantity, the name or the price and currency missing, or an empty object;
\* current_quantity is whatever integer the peer wrote
SyncResponses ==
    LET Full == [options_groups : {<<>>, <<Toppings>>, <<Sauces, Toppings>>},
                 current_quantity : {1, 2},
                 currency_code : {"MAD"},
                 currency_symbol : {"DH"},
                 price : {500},
                 product_name : {"Burger"}]
        KeySets == {SyncKeys, {}, SyncKeys \ {"options_groups"},
                    SyncKeys \ {"current_quantity"},
                    SyncKeys \ {"product_name"},
                    SyncKeys \ {"currency_code", "currency_symbol", "price"}}
        Plain == CHOOSE f \in Full : /\ f.options_groups = <<>>
                                     /\ f.current_quantity = 1
    IN  { [k \in K |-> f[k]] : f \in Full, K \in KeySets }
        \cup { [Plain EXCEPT !.current_quantity = q] : q \in {-1, 0} }

SyncOutcomes ==
    {[kind |-> "empty"], [kind |-> "RpcError"], [kind |-> "malformed"]}
    \cup { [kind |-> "ok", data |-> d] : d \in SyncResponses }

\* variant: option_groups is one list shared by every OrderState, so a new
\* instance starts with the groups of the one before
OrderState_shared_groups ==
    [product_name |-> "Product Name", total_price |-> 0, quantity |-> 1,
     option_groups |-> IF current_order = <<>> THEN <<>>
                       ELSE current_order[1].option_groups,
     currency_code |-> "USD",
     currency_symbol |-> "$", last_sync |-> <<>>]

\* OrderState.__init__
OrderState ==
    [product_name |-> "Product Name", total_price |-> 0, quantity |-> 1,
     option_groups |-> <<>>, currency_code |-> "USD",
     currency_symbol |-> "$", last_sync |-> <<>>]

parse_option(option_data) ==
    [id |-> get(option_data, "id", 0),
     name |-> get(option_data, "option_name", ""),
     price |-> float(option_data.price),
     stock |-> get(option_data, "stock", 0),
     qty_max |-> get(option_data, "qty_max", 0),
     qty |-> 0]

ProductOptionGroup(group_data) ==
    [id |-> group_data.id, name |-> group_data.group_name,
     min_options |-> group_data.min_options,
     max_options |-> group_data.max_options,
     options |-> [i \in 1..Len(group_data.options) |->
                     parse_option(group_data.options[i])]]

\* OrderState.from_sync_response: a fresh OrderState, then the fields
from_sync_response(sync_data) ==
    LET state == OrderState
        groups == get(sync_data, "options_groups", <<>>)
    IN  [product_name |-> get(sync_data, "product_name", PyNone),
         currency_code |-> get(sync_data, "currency_code", "EUR"),
         currency_symbol |-> get(sync_data, "currency_symbol", "EURO"),
         quantity |-> get(sync_data, "current_quantity", 1),
         total_price |-> get(sync_data, "price", 0),
         last_sync |-> <<"now">>,
         option_groups |-> state.option_groups \o
             [i \in 1..Len(groups) |-> ProductOptionGroup(groups[i])]]

RECURSIVE group_lines(_, _)
group_lines(groups, currency_symbol) ==
    IF groups = <<>> THEN <<>>
    ELSE LET group == Head(groups) IN
         << <<"group", group.name, group.min_options, group.max_options>> >>
         \o [i \in 1..Len(group.options) |->
                <<"option", group.options[i].name, group.options[i].price,
                  currency_symbol, group.options[i].qty,
                  group.options[i].qty_max, group.options[i].stock>>]
         \o group_lines(Tail(groups), currency_symbol)

\* OrderState.to_summary: the lines of the summary, in order
to_summary(self) ==
    << <<"This Order Summary for", self.product_name,
         IF self.quantity > 1 THEN <<self.quantity>> ELSE <<>> >>,
       <<"Total Price", self.total_price, self.currency_symbol>> >>
    \o (IF self.option_groups # <<>>
        THEN << <<"Selected Options:">> >>
             \o group_lines(self.option_groups, self.currency_symbol)
        ELSE << <<"No options selected.">> >>)
    \o (IF self.last_sync # <<>>
        THEN << <<"Last synced", self.last_sync[1]>> >>
        ELSE <<>>)

----------------------------------------------------------------------------
(* Tools of the order roles *)

\* the result carries the OrderState the call built, if it built one
sync_order_options_impl(participants, out) ==
    LET rpc == perform_rpc("syncProductOptions", <<>>, 15) IN
    IF participants = {}
    THEN Raise("ToolError", "No participants to redirect", <<>>)
             @@ [current_order |-> <<>>]
    ELSE IF out.kind = "RpcError"
    THEN Raise("ToolError", "Failed to sync order options", <<rpc>>)
             @@ [current_order |-> <<>>]
    ELSE IF out.kind = "empty"
    THEN Return([success |-> FALSE, error |-> "Empty RPC response"], <<rpc>>)
             @@ [current_order |-> <<>>]
    ELSE IF out.kind = "malformed"
    THEN Raise("JSONDecodeError", "", <<rpc>>) @@ [current_order |-> <<>>]
    ELSE LET order == from_sync_response(out.data) IN
         Return([success |-> TRUE, summary |-> to_summary(order)], <<rpc>>)
             @@ [current_order |-> <<order>>]

\* the product_type the quantity and select payloads carry
payload_product_type(product_type) ==
    IF product_type = "variant" THEN "basic" ELSE product_type

\* variant: an empty response is passed on as the message of a success
increase_product_quantity_impl_swallow_empty(product_type, participants, out) ==
    LET rpc == perform_rpc("increaseProductQuantity",
                   [product_type |-> payload_product_type(product_type)], 10) IN
    IF participants = {}
    THEN Raise("ToolError", "No participants is present", <<>>)
    ELSE IF out.kind = "RpcError"
    THEN Raise("ToolError", "Failed to increase product quantity", <<rpc>>)
    ELSE Return([message |-> "response"], <<rpc>>)

increase_product_quantity_impl(product_type, participants, out) ==
    LET rpc == perform_rpc("increaseProductQuantity",
                   [product_type |-> payload_product_type(product_type)], 10) IN
    IF participants = {}
    THEN Raise("ToolError", "No participants is present", <<>>)
    ELSE IF out.kind = "RpcError"
    THEN Raise("ToolError", "Failed to increase product quantity", <<rpc>>)
    ELSE IF out.kind = "empty"
    THEN Raise("ToolError", "Failed to increase product quantity", <<rpc>>)
    ELSE Return([message |-> "response"], <<rpc>>)

decrease_product_quantity_impl(product_type, participants, out) ==
    LET rpc == perform_rpc("decreaseProductQuantity",
                   [product_type |-> payload_product_type(product_type)], 10) IN
    IF participants = {}
    THEN Raise("ToolError", "No participants is present", <<>>)
    ELSE IF out.kind = "RpcError"
    THEN Raise("ToolError", "Failed to decrease product quantity", <<rpc>>)
    ELSE IF out.kind = "empty"
    THEN Raise("ToolError", "Failed to decrease product quantity", <<rpc>>)
    ELSE Return([message |-> "response"], <<rpc>>)

\* variant: a successful select is followed by a sync, as the line left in
\* a comment after it would do
select_option_impl_resync(product_type, group_id, option_id, participants, out) ==
    LET rpc == perform_rpc("toggleOptionSelection",
                   [group_id |-> group_id, option_id |-> option_id,
                    action |-> "select",
                    product_type |-> payload_product_type(product_type)],
                   10) IN
    IF participants = {}
    THEN Raise("ToolError", "No participants is present", <<>>)
    ELSE IF out.kind = "RpcError"
    THEN Raise("ToolError", "Failed to select option", <<rpc>>)
    ELSE IF out.kind = "empty"
    THEN Raise("ToolError", "Failed to select option", <<rpc>>)
    ELSE Return([message |-> "response", group_id |-> group_id,
                 option_id |-> option_id],
                <<rpc, perform_rpc("syncProductOptions", <<>>, 15)>>)

select_option_impl(product_type, group_id, option_id, participants, out) ==
    LET rpc == perform_rpc("toggleOptionSelection",
                   [group_id |-> group_id, option_id |-> option_id,
                    action |-> "select",
                    product_type |-> payload_product_type(product_type)],
                   10) IN
    IF participants = {}
    THEN Raise("ToolError", "No participants is present", <<>>)
    ELSE IF out.kind = "RpcError"
    THEN Raise("ToolError", "Failed to select option", <<rpc>>)
    ELSE IF out.kind = "empty"
    THEN Raise("ToolError", "Failed to select option", <<rpc>>)
    ELSE Return([message |-> "response", group_id |-> group_id,
                 option_id |-> option_id], <<rpc>>)

unselect_option_impl(product_type, group_id, option_id, participants, out) ==
    LET rpc == perform_rpc("toggleOptionSelection",
                   [group_id |-> group_id, option_id |-> option_id,
                    action |-> "unselect", product_type |-> product_type],
                   15) IN
    IF participants = {}
    THEN Raise("ToolError", "No participants is present", <<>>)
    ELSE IF out.kind = "RpcError"
    THEN Raise("ToolError", "Failed to unselect option", <<rpc>>)
    ELSE IF out.kind = "empty"
    THEN Raise("ToolError", "Failed to unselect option", <<rpc>>)
    ELSE Return([message |-> "response", group_id |-> group_id,
                 option_id |-> option_id], <<rpc>>)

\* variant: the RPC is attempted without looking at remote_participants
complete_order_impl_unguarded(chat_ctx, participants, out) ==
    LET rpc == perform_rpc("addToCart", <<>>, 10)
        failed == Raise("ToolError",
                    "An error occurred while attempting to add the item to cart",
                    <<rpc>>)
        assistant == Assistant(chat_ctx, <<>>)
    IN
    IF participants = {} \/ out.kind = "RpcError" THEN failed
    ELSE IF out.kind = "empty" THEN failed
    ELSE IF assistant = <<>> THEN failed
    ELSE Handoff(assistant[1], "the order has been successfully completed",
                 <<rpc>>)

\* variant: the order is only sent after a sync that succeeded
complete_order_impl_requires_sync(chat_ctx, participants, out) ==
    LET rpc == perform_rpc("addToCart", <<>>, 10)
        failed == Raise("ToolError",
                    "An error occurred while attempting to add the item to cart",
                    <<rpc>>)
        assistant == Assistant(chat_ctx, <<>>)
    IN
    IF participants = {}
    THEN Raise("ToolError", "No participants available", <<>>)
    ELSE IF synced # "ok"
    THEN Raise("ToolError", "Sync the order first", <<>>)
    ELSE IF out.kind = "RpcError" THEN failed
    ELSE IF out.kind = "empty" THEN failed
    ELSE IF assistant = <<>> THEN failed
    ELSE Handoff(assistant[1], "the order has been successfully completed",
                 <<rpc>>)

\* Assistant(chat_ctx=chat_ctx): the state argument is left at its default
complete_order_impl(chat_ctx, participants, out) ==
    LET rpc == perform_rpc("addToCart", <<>>, 10)
        failed == Raise("ToolError",
                    "An error occurred while attempting to add the item to cart",
                    <<rpc>>)
        assistant == Assistant(chat_ctx, <<>>)
    IN
    IF participants = {}
    THEN Raise("ToolError", "No participants available", <<>>)
    ELSE IF out.kind = "RpcError" THEN failed
    ELSE IF out.kind = "empty" THEN failed
    ELSE IF assistant = <<>> THEN failed
    ELSE Handoff(assistant[1], "the order has been successfully completed",
                 <<rpc>>)

\* variant: leaving the task starts a basic order task again
exit_ordering_task_impl_restart(chat_ctx, state) ==
    Handoff(BasicOrderTask("basic", chat_ctx, state),
            "User exited customization", <<>>)

\* variant: the task adds the product to the cart on its way out
exit_ordering_task_impl_add_to_cart(chat_ctx, state) ==
    LET assistant == Assistant(chat_ctx, state) IN
    IF assistant = <<>>
    THEN Raise("AttributeError", "", <<>>)
    ELSE Handoff(assistant[1], "User exited customization",
                 <<perform_rpc("addToCart", <<>>, 10)>>)

exit_ordering_task_impl(chat_ctx, state) ==
    LET assistant == Assistant(chat_ctx, state) IN
    IF assistant = <<>>
    THEN Raise("AttributeError", "", <<>>)
    ELSE Handoff(assistant[1], "User exited customization", <<>>)

\* the order roles' complete_order and exit_ordering_task methods
complete_order(self, participants, out) ==
    complete_order_impl(self.chat_ctx, participants, out)

exit_ordering_task(self) ==
    exit_ordering_task_impl(self.chat_ctx, self.state)

----------------------------------------------------------------------------
(* The browser: what its handlers do with the commands it receives.        *)
(* Frontend handles min/max validation; a decrement stops at 1.            *)

frontend_increase(quantity) ==
    IF quantity < MaxQuantity THEN quantity + 1 ELSE quantity

\* variant: the decrement has no floor
frontend_decrease_unfloored(quantity) == quantity - 1

frontend_decrease(quantity) ==
    IF quantity > 1 THEN quantity - 1 ELSE 1

\* addToCart puts the configured product in the cart
frontend_add_to_cart(cart) == cart + 1

\* the peer ran its handler unless the call raised RpcError
applied(result, out) == result.rpcs # <<>> /\ out.kind # "RpcError"

----------------------------------------------------------------------------
(* The jobs of one worker: entrypoint runs once per job, each with its own *)
(* room, session, PerJobState and Assistant.                               *)

Jobs == {"A", "B"}

\* the browser attached to a job's room
browser(job) == <<"browser", job>>

\* entrypoint: PerJobState(room=ctx.room, ...), Assistant(state=state),
\* session.userdata = state; current_order is the OrderState the job's
\* last sync_order_options built
entrypoint(job) ==
    [agent |-> Assistant(<<>>, PerJobState)[1],
     pending_product |-> <<>>,
     remote_participants |-> {browser(job)},
     current_order |-> <<>>]

\* variant: one job context is kept for the whole worker
get_job_context_shared(job) == "A"

\* get_job_context(): the context of the job the running task belongs to
get_job_context(job) == job

\* context.userdata: the PerJobState entrypoint put on the job's session
userdata(job) == job

\* next(iter(room.remote_participants))
participant_identity(participants) == CHOOSE p \in participants : TRUE

\* a job's tool call and the identities its RPCs were addressed to
job_call(job, tool, result) ==
    [job |-> job, tool |-> tool, exc |-> result.exc,
     destinations |->
         IF result.rpcs = <<>> THEN {}
         ELSE {participant_identity(
                   jobs[get_job_context(job)].remote_participants)}]

\* the sync answers used when jobs run side by side
JobSyncOutcomes ==
    { out \in SyncOutcomes :
        out.kind = "ok" => /\ DOMAIN out.data = SyncKeys
                           /\ out.data.options_groups = <<>>
                           /\ out.data.current_quantity \in {1, 2} }

----------------------------------------------------------------------------
(* The presence timer of EventHandlers.setup_session_handlers *)

\* for _ in range(2)
PresenceChecks == 2

\* user_presence_task before asyncio.create_task was called on it
NotCreated ==
    [pc |-> "none", i |-> 0, checks |-> 0, sleeps |-> 0, farewell |-> FALSE,
     closed |-> FALSE]

\* the coroutine as asyncio.create_task(user_presence_task()) leaves it
Created == [NotCreated EXCEPT !.pc = "check"]

\* variant: one presence check, then the farewell
user_presence_task_single_check(p, reply_ok) ==
    CASE p.pc = "check" ->
             IF reply_ok
             THEN [p EXCEPT !.pc = "sleep", !.checks = @ + 1]
             ELSE [p EXCEPT !.pc = "raised"]
      [] p.pc = "sleep" ->
             [p EXCEPT !.sleeps = @ + 1, !.i = @ + 1, !.pc = "farewell"]
      [] p.pc = "farewell" ->
             IF reply_ok
             THEN [p EXCEPT !.pc = "aclose", !.farewell = TRUE]
             ELSE [p EXCEPT !.pc = "raised"]
      [] p.pc = "aclose" -> [p EXCEPT !.pc = "done", !.closed = TRUE]
      [] OTHER -> p

\* user_presence_task from one await to the next: the presence check and
\* the sleep of each round, the farewell, session.aclose(); a generate_reply
\* that raises ends the task
user_presence_task(p, reply_ok) ==
    CASE p.pc = "check" ->
             IF reply_ok
             THEN [p EXCEPT !.pc = "sleep", !.checks = @ + 1]
             ELSE [p EXCEPT !.pc = "raised"]
      [] p.pc = "sleep" ->
             [p EXCEPT !.sleeps = @ + 1, !.i = @ + 1,
                       !.pc = IF p.i + 1 < PresenceChecks THEN "check"
                              ELSE "farewell"]
      [] p.pc = "farewell" ->
             IF reply_ok
             THEN [p EXCEPT !.pc = "aclose", !.farewell = TRUE]
             ELSE [p EXCEPT !.pc = "raised"]
      [] p.pc = "aclose" -> [p EXCEPT !.pc = "done", !.closed = TRUE]
      [] OTHER -> p

UserStates == {"speaking", "listening", "away"}

----------------------------------------------------------------------------
(* The conversation *)

\* entrypoint: Assistant(state=state) is the first agent, nothing is pending
Init ==
    /\ agent = Assistant(<<>>, PerJobState)[1]
    /\ pending_product = <<>>
    /\ remote_participants \in SUBSET Identities
    /\ synced = "never"
    /\ last = [tool |-> "none"]
    /\ terminated = FALSE
    /\ feQuantity = 1
    /\ feCart = 0
    /\ fresh = FALSE
    /\ redirected = FALSE
    /\ user_state = "listening"
    /\ inactivity_task = <<>>
    /\ presence = NotCreated
    /\ jobs = [job \in Jobs |-> entrypoint(job)]
    /\ job_last = [job |-> "none"]

\* the LLM driver can call the tools the live agent offers
offered(tool) == ~terminated /\ tool \in agent.tools

\* a tool call as the driver sees it; out is kept only if an RPC was made
call(tool, args, out, result) ==
    [tool |-> tool, args |-> args, role |-> agent.role,
     participants |-> remote_participants,
     out |-> IF result.rpcs = <<>> THEN <<>> ELSE <<out>>,
     result |-> result]

\* a tool that returns an Agent makes it the live agent
update_agent(result) ==
    IF result.handoff # <<>> THEN result.handoff[1] ELSE agent

\* a dialogue turn is added to the live agent's chat context
Converse ==
    /\ ~terminated
    /\ Len(agent.chat_ctx) < MaxHistory
    /\ agent' = [agent EXCEPT !.chat_ctx = Append(@, Len(@) + 1)]
    /\ UNCHANGED <<idle, worker, feCart, pending_product, remote_participants, synced, last,
                   terminated, feQuantity, fresh, redirected>>

ParticipantConnected ==
    /\ ~terminated
    /\ \E p \in Identities \ remote_participants :
           remote_participants' = remote_participants \cup {p}
    /\ UNCHANGED <<idle, worker, feCart, agent, pending_product, synced, last, terminated,
                   feQuantity, fresh, redirected>>

ParticipantDisconnected ==
    /\ ~terminated
    /\ \E p \in remote_participants :
           remote_participants' = remote_participants \ {p}
    /\ UNCHANGED <<idle, worker, feCart, agent, pending_product, synced, last, terminated,
                   feQuantity, fresh, redirected>>

SearchProducts ==
    /\ offered("search_products")
    /\ \E products \in SearchResults :
           last' = call("search_products", [products |-> products], <<>>,
                        search_products_impl(products))
    /\ UNCHANGED <<idle, worker, feCart, agent, pending_product, remote_participants, synced,
                   terminated, feQuantity, fresh, redirected>>

RedirectToWebsitePage ==
    /\ offered("redirect_to_website_page")
    /\ \E url \in Urls, out \in RpcOutcomes :
           last' = call("redirect_to_website_page", [redirect_url |-> url], out,
                        redirect_to_website_page_impl(remote_participants,
                                                      url, out))
    /\ UNCHANGED <<idle, worker, feCart, agent, pending_product, remote_participants, synced,
                   terminated, feQuantity, fresh, redirected>>

RedirectToProductPage ==
    /\ offered("redirect_to_product_page")
    /\ \E url \in Urls, id \in ProductIds, type \in ProductTypeInputs,
          out \in RpcOutcomes :
           LET result == redirect_to_product_page_impl(
                             pending_product, remote_participants,
                             url, id, type, out)
           IN  /\ pending_product' = result.pending_product
               /\ fresh' = (fresh \/ result.exc = "none")
               /\ redirected' = (redirected \/ result.exc = "none")
               /\ last' = call("redirect_to_product_page",
                               [redirect_url |-> url, product_id |-> id,
                                product_type |-> type], out, result)
    /\ UNCHANGED <<idle, worker, feCart, agent, remote_participants, synced, terminated,
                   feQuantity>>

InitiateProductOrder ==
    /\ offered("initiate_product_order")
    /\ \E fetch \in FetchOutcomes :
           LET result == Assistant_initiate_product_order(
                             agent, pending_product, fetch)
           IN  /\ agent' = update_agent(result)
               /\ fresh' = (fresh /\ result.handoff = <<>>)
               /\ synced' = IF result.handoff # <<>> THEN "never" ELSE synced
               /\ last' = call("initiate_product_order",
                               [fresh |-> fresh, redirected |-> redirected],
                               <<>>, result)
    /\ UNCHANGED <<idle, worker, feCart, pending_product, remote_participants, terminated,
                   feQuantity, redirected>>

SyncOrderOptions ==
    /\ offered("sync_order_options")
    /\ \E out \in SyncOutcomes :
           LET result == sync_order_options_impl(remote_participants, out)
               again == /\ last.tool = "sync_order_options"
                        /\ last.result.current_order # <<>>
                        /\ result.current_order # <<>>
                        /\ last.out[1].data # out.data
           IN  /\ synced' = IF result.exc # "none" THEN "failed"
                              ELSE IF result.ret[1].success THEN "ok"
                              ELSE "empty"
               /\ last' = call("sync_order_options",
                               [again |-> again,
                                selected |->
                                    IF /\ last.tool = "select_option"
                                       /\ last.result.exc = "none"
                                    THEN <<last.args.option_id>> ELSE <<>>],
                               out, result)
    /\ UNCHANGED <<idle, worker, feCart, agent, pending_product, remote_participants, terminated,
                   feQuantity, fresh, redirected>>

IncreaseProductQuantity ==
    /\ offered("increase_product_quantity")
    /\ \E out \in RpcOutcomes :
           LET result == increase_product_quantity_impl(
                             agent.product_type, remote_participants, out)
           IN  /\ feQuantity' = IF applied(result, out)
                                THEN frontend_increase(feQuantity)
                                ELSE feQuantity
               /\ last' = call("increase_product_quantity", <<>>, out, result)
    /\ UNCHANGED <<idle, worker, feCart, agent, pending_product, remote_participants, synced,
                   terminated, fresh,
                   redirected>>

DecreaseProductQuantity ==
    /\ offered("decrease_product_quantity")
    /\ \E out \in RpcOutcomes :
           LET result == decrease_product_quantity_impl(
                             agent.product_type, remote_participants, out)
           IN  /\ feQuantity' = IF applied(result, out)
                                THEN frontend_decrease(feQuantity)
                                ELSE feQuantity
               /\ last' = call("decrease_product_quantity", [quantity |-> feQuantity],
                               out, result)
    /\ UNCHANGED <<idle, worker, feCart, agent, pending_product, remote_participants, synced,
                   terminated, fresh,
                   redirected>>

GroupIds == {3}
OptionIds == {15, 21}

SelectOption ==
    /\ offered("select_option")
    /\ \E group_id \in GroupIds, option_id \in OptionIds, out \in RpcOutcomes :
           last' = call("select_option",
                        [group_id |-> group_id, option_id |-> option_id], out,
                        select_option_impl(agent.product_type, group_id,
                                           option_id, remote_participants, out))
    /\ UNCHANGED <<idle, worker, feCart, agent, pending_product, remote_participants, synced,
                   terminated, feQuantity, fresh, redirected>>

UnselectOption ==
    /\ offered("unselect_option")
    /\ \E group_id \in GroupIds, option_id \in OptionIds, out \in RpcOutcomes :
           last' = call("unselect_option",
                        [group_id |-> group_id, option_id |-> option_id], out,
                        unselect_option_impl(agent.product_type, group_id,
                                             option_id, remote_participants,
                                             out))
    /\ UNCHANGED <<idle, worker, feCart, agent, pending_product, remote_participants, synced,
                   terminated, feQuantity, fresh, redirected>>

CompleteOrder ==
    /\ offered("complete_order")
    /\ \E out \in RpcOutcomes :
           LET result == complete_order(agent, remote_participants, out)
           IN  /\ applied(result, out) => feCart < MaxCart
               /\ feCart' = IF applied(result, out)
                            THEN frontend_add_to_cart(feCart) ELSE feCart
               /\ agent' = update_agent(result)
               /\ synced' = IF result.handoff # <<>> THEN "never" ELSE synced
               /\ last' = call("complete_order",
                               [synced |-> synced,
                                stale |-> last.tool # "sync_order_options"],
                               out, result)
    /\ UNCHANGED <<idle, worker, pending_product, remote_participants, terminated,
                   feQuantity, fresh, redirected>>

ExitOrderingTask ==
    /\ offered("exit_ordering_task")
    /\ LET result == exit_ordering_task(agent)
       IN  /\ feCart' = IF \E i \in 1..Len(result.rpcs) :
                                result.rpcs[i].method = "addToCart"
                        THEN frontend_add_to_cart(feCart) ELSE feCart
           /\ agent' = update_agent(result)
           /\ synced' = IF result.handoff # <<>> THEN "never" ELSE synced
           /\ last' = call("exit_ordering_task", <<>>, <<>>, result)
    /\ UNCHANGED <<idle, worker, pending_product, remote_participants, terminated,
                   feQuantity, fresh, redirected>>

EndSession ==
    /\ offered("end_session")
    /\ \E reply_ok \in BOOLEAN :
           LET result == end_session_impl(reply_ok)
           IN  /\ terminated' = result.shutdown
               /\ last' = call("end_session", <<>>, <<>>, result)
    /\ UNCHANGED <<idle, worker, feCart, agent, pending_product, remote_participants, synced,
                   feQuantity, fresh, redirected>>

Next ==
    \/ Converse
    \/ ParticipantConnected
    \/ ParticipantDisconnected
    \/ SearchProducts
    \/ RedirectToWebsitePage
    \/ RedirectToProductPage
    \/ InitiateProductOrder
    \/ SyncOrderOptions
    \/ IncreaseProductQuantity
    \/ DecreaseProductQuantity
    \/ SelectOption
    \/ UnselectOption
    \/ CompleteOrder
    \/ ExitOrderingTask
    \/ EndSession

Spec == Init /\ [][Next]_vars

----------------------------------------------------------------------------
(* The user's presence *)

\* the session emits user_state_changed; no handler is registered for it
\* (the decorator and the function are commented out), so nothing else moves
UserStateChanged ==
    /\ ~terminated
    /\ \E new_state \in UserStates \ {user_state} :
           user_state' = new_state
    /\ UNCHANGED <<agent, pending_product, remote_participants, synced, last,
                   terminated, feQuantity, feCart, fresh, redirected,
                   inactivity_task, presence, worker>>

PresenceNext ==
    \/ UserStateChanged
    \/ Converse
    \/ ParticipantConnected
    \/ ParticipantDisconnected
    \/ SearchProducts
    \/ RedirectToWebsitePage
    \/ EndSession

\* the conversation in Discovery with the user's presence events
PresenceSpec == Init /\ [][PresenceNext]_vars

\* user_presence_task applied: the state of entrypoint's end with the
\* coroutine created, as asyncio.create_task(user_presence_task()) does
PresenceTaskInit ==
    /\ agent = Assistant(<<>>, PerJobState)[1]
    /\ pending_product = <<>>
    /\ remote_participants \in SUBSET Identities
    /\ synced = "never"
    /\ last = [tool |-> "none"]
    /\ terminated = FALSE
    /\ feQuantity = 1
    /\ feCart = 0
    /\ fresh = FALSE
    /\ redirected = FALSE
    /\ user_state = "away"
    /\ inactivity_task = <<"user_presence_task">>
    /\ presence = Created
    /\ jobs = [job \in Jobs |-> entrypoint(job)]
    /\ job_last = [job |-> "none"]

\* the event loop resumes the task at its next await
UserPresenceTask ==
    /\ presence.pc \in {"check", "sleep", "farewell", "aclose"}
    /\ \E reply_ok \in BOOLEAN :
           presence' = user_presence_task(presence, reply_ok)
    /\ UNCHANGED <<agent, pending_product, remote_participants, synced, last,
                   terminated, feQuantity, feCart, fresh, redirected,
                   user_state, inactivity_task, worker>>


----------------------------------------------------------------------------
(* Two jobs side by side *)

JobParticipantConnected(job) ==
    /\ jobs[job].remote_participants = {}
    /\ jobs' = [jobs EXCEPT ![job].remote_participants = {browser(job)}]
    /\ UNCHANGED <<conversation, idle, job_last>>

JobParticipantDisconnected(job) ==
    /\ jobs[job].remote_participants # {}
    /\ jobs' = [jobs EXCEPT ![job].remote_participants = {}]
    /\ UNCHANGED <<conversation, idle, job_last>>

JobRedirectToProductPage(job) ==
    /\ "redirect_to_product_page" \in jobs[job].agent.tools
    /\ \E url \in Urls, id \in ProductIds, type \in ProductType,
          out \in RpcOutcomes :
           LET result == redirect_to_product_page_impl(
                             jobs[userdata(job)].pending_product,
                             jobs[get_job_context(job)].remote_participants,
                             url, id, type, out)
           IN  /\ jobs' = [jobs EXCEPT ![userdata(job)].pending_product =
                                           result.pending_product]
               /\ job_last' = job_call(job, "redirect_to_product_page", result)
    /\ UNCHANGED <<conversation, idle>>

JobInitiateProductOrder(job) ==
    /\ "initiate_product_order" \in jobs[job].agent.tools
    /\ \E fetch \in FetchOutcomes :
           LET result == Assistant_initiate_product_order(
                             jobs[job].agent,
                             jobs[userdata(job)].pending_product, fetch)
           IN  /\ jobs' = [jobs EXCEPT ![job].agent =
                              IF result.handoff # <<>>
                              THEN result.handoff[1] ELSE @]
               /\ job_last' = job_call(job, "initiate_product_order", result)
    /\ UNCHANGED <<conversation, idle>>

JobSyncOrderOptions(job) ==
    /\ "sync_order_options" \in jobs[job].agent.tools
    /\ \E out \in JobSyncOutcomes :
           LET result == sync_order_options_impl(
                             jobs[get_job_context(job)].remote_participants,
                             out)
           IN  /\ jobs' = [jobs EXCEPT ![job].current_order =
                                           result.current_order]
               /\ job_last' = job_call(job, "sync_order_options", result)
    /\ UNCHANGED <<conversation, idle>>

JobExitOrderingTask(job) ==
    /\ "exit_ordering_task" \in jobs[job].agent.tools
    /\ LET result == exit_ordering_task(jobs[job].agent)
       IN  /\ jobs' = [jobs EXCEPT ![job].agent =
                          IF result.handoff # <<>>
                          THEN result.handoff[1] ELSE @,
                                   ![job].current_order = <<>>]
           /\ job_last' = job_call(job, "exit_ordering_task", result)
    /\ UNCHANGED <<conversation, idle>>

IsolationNext ==
    \/ \E job \in Jobs : JobParticipantConnected(job)
    \/ \E job \in Jobs : JobParticipantDisconnected(job)
    \/ \E job \in Jobs : JobRedirectToProductPage(job)
    \/ \E job \in Jobs : JobInitiateProductOrder(job)
    \/ \E job \in Jobs : JobSyncOrderOptions(job)
    \/ \E job \in Jobs : JobExitOrderingTask(job)

IsolationSpec == Init /\ [][IsolationNext]_vars

----------------------------------------------------------------------------
(* Properties *)

\* C1: in every reachable state the tool names offered to the LLM driver are
\* the declared set of the one active role: Discovery offers search_products,
\* redirect_to_product_page, initiate_product_order, redirect_to_website_page
\* and end_session; BasicOrder offers increase/decrease quantity,
\* complete_order, exit_ordering_task and end_session; FullOrder offers those
\* plus sync_order_options, select_option and unselect_option.
C1_ToolsMatchRole ==
    /\ agent.role \in {"Discovery", "BasicOrder", "FullOrder"}
    /\ agent.role = "Discovery" =>
           agent.tools = {"search_products", "redirect_to_product_page",
                          "initiate_product_order", "redirect_to_website_page",
                          "end_session"}
    /\ agent.role = "BasicOrder" =>
           agent.tools = {"increase_product_quantity",
                          "decrease_product_quantity", "complete_order",
                          "exit_ordering_task", "end_session"}
    /\ agent.role = "FullOrder" =>
           agent.tools = {"increase_product_quantity",
                          "decrease_product_quantity", "complete_order",
                          "exit_ordering_task", "end_session",
                          "sync_order_options", "select_option",
                          "unselect_option"}

\* the FullOrder role is live and one of its own tools has been called
C1_Witness ==
    /\ agent.role = "FullOrder"
    /\ last.tool = "select_option"
    /\ last.result.exc = "none"

\* C2: initiate_product_order called while no redirect_to_product_page has
\* yet succeeded fails with the missing-pending-product ToolError; no detail
\* fetch, no reply generation and no role change happens.
C2_PendingProductGate ==
    (last.tool = "initiate_product_order" /\ ~last.args.redirected) =>
        /\ last.result.exc = "ToolError"
        /\ last.result.msg = "No pending product found"
        /\ last.result.fetches = 0
        /\ last.result.replies = 0
        /\ last.result.handoff = <<>>
        /\ agent.role = "Discovery"

\* the call was made, after some dialogue, before any redirect succeeded
C2_Witness ==
    /\ last.tool = "initiate_product_order"
    /\ ~last.args.redirected
    /\ last.result.exc = "ToolError"
    /\ Len(agent.chat_ctx) > 0

\* C3: a successful initiate_product_order picks the new role by the pending
\* product's type alone: basic gives BasicOrder, variant and customizable
\* give FullOrder, and the new role carries the type the last successful
\* redirect_to_product_page stored.
C3_RoleByProductType ==
    (last.tool = "initiate_product_order" /\ last.result.exc = "none") =>
        /\ last.result.handoff # <<>>
        /\ pending_product # <<>>
        /\ LET new_role == last.result.handoff[1]
               stored == pending_product[1].product_type
           IN  /\ stored = "basic" => new_role.role = "BasicOrder"
               /\ stored \in {"variant", "customizable"} =>
                      new_role.role = "FullOrder"
               /\ stored \in ProductType
               /\ new_role.product_type = stored

\* a variant product was handed to the full order task
C3_Witness ==
    /\ last.tool = "initiate_product_order"
    /\ last.result.exc = "none"
    /\ agent.role = "FullOrder"
    /\ agent.product_type = "variant"

\* C4: in an order role, whenever complete_order's addToCart RPC returns a
\* non-empty response the tool call succeeds and the live role becomes
\* Discovery.
C4_CompleteOrderHandsBack ==
    (last.tool = "complete_order" /\ last.out = <<[kind |-> "ok"]>>) =>
        /\ last.result.exc = "none"
        /\ last.result.handoff # <<>>
        /\ agent.role = "Discovery"

\* C5: across every role transition the new role has the dialogue history of
\* the role that made the call, neither reset nor truncated.
C5_HistoryContinuity ==
    [][agent'.role # agent.role => agent'.chat_ctx = agent.chat_ctx]_vars

\* back in Discovery through exit_ordering_task with a non-empty history
C5_Witness ==
    /\ last.tool = "exit_ordering_task"
    /\ agent.role = "Discovery"
    /\ Len(agent.chat_ctx) >= 1

\* the tools that send an RPC or a navigation command to the peer
RpcTools ==
    {"redirect_to_product_page", "redirect_to_website_page",
     "sync_order_options", "select_option", "unselect_option",
     "increase_product_quantity", "decrease_product_quantity",
     "complete_order"}

NoPeerMessages ==
    {"No participants to redirect", "No participants is present",
     "No participants available"}

\* C6 as stated: with zero remote participants every RPC or navigation tool
\* fails with the no-peer failure and perform_rpc is never invoked.
C6_NoPeerAlways ==
    (last.tool \in RpcTools /\ last.participants = {}) =>
        /\ last.result.rpcs = <<>>
        /\ last.result.exc = "ToolError"
        /\ last.result.msg \in NoPeerMessages

\* C6: with zero remote participants every RPC or navigation tool fails and
\* perform_rpc is never invoked; the failure is the no-peer failure, except
\* that redirect_to_product_page given a product type outside basic, variant
\* and customizable fails with its invalid-product-type error first.
C6_NoPeerShortCircuit ==
    (last.tool \in RpcTools /\ last.participants = {}) =>
        /\ last.result.rpcs = <<>>
        /\ last.result.exc # "none"
        /\ \/ /\ last.result.exc = "ToolError"
              /\ last.result.msg \in NoPeerMessages
           \/ /\ last.tool = "redirect_to_product_page"
              /\ last.args.product_type \notin ProductType
              /\ last.result.exc = "ValueError"

\* complete_order was called in an order role while nobody was attached
C6_Witness ==
    /\ last.tool = "complete_order"
    /\ last.participants = {}
    /\ last.result.msg = "No participants available"

\* C7: after two consecutive sync_order_options calls whose responses differ
\* the OrderState and the returned summary show the second response only:
\* every field is the second response's or a fixed default.
C7_SyncReplaces ==
    (last.tool = "sync_order_options" /\ last.args.again) =>
        LET data == last.out[1].data
            order == current_order[1]
            has(k) == k \in DOMAIN data
            groups == IF has("options_groups") THEN data.options_groups
                      ELSE <<>>
        IN  /\ current_order = last.result.current_order
            /\ order.product_name =
                   IF has("product_name") THEN data.product_name ELSE "None"
            /\ order.currency_code =
                   IF has("currency_code") THEN data.currency_code ELSE "EUR"
            /\ order.currency_symbol =
                   IF has("currency_symbol") THEN data.currency_symbol
                   ELSE "EURO"
            /\ order.quantity =
                   IF has("current_quantity") THEN data.current_quantity
                   ELSE 1
            /\ order.total_price = IF has("price") THEN data.price ELSE 0
            /\ Len(order.option_groups) = Len(groups)
            /\ \A i \in 1..Len(groups) :
                   /\ order.option_groups[i].id = groups[i].id
                   /\ order.option_groups[i].name = groups[i].group_name
                   /\ order.option_groups[i].min_options = groups[i].min_options
                   /\ order.option_groups[i].max_options = groups[i].max_options
                   /\ Len(order.option_groups[i].options)
                          = Len(groups[i].options)
                   /\ \A j \in 1..Len(groups[i].options) :
                          LET option == order.option_groups[i].options[j]
                              sent == groups[i].options[j]
                          IN  /\ option.id = sent.id
                              /\ option.name = sent.option_name
                              /\ option.stock = sent.stock
                              /\ option.qty_max = sent.qty_max
                              /\ option.qty = 0
                              /\ option.price =
                                     (IF sent.price = "1.50" THEN 150
                                      ELSE IF sent.price = "0.25" THEN 25
                                      ELSE 0)
            /\ last.result.ret[1].success
            /\ last.result.ret[1].summary[1][2] = order.product_name
            /\ last.result.ret[1].summary[2][2] = order.total_price
            /\ Len(last.result.ret[1].summary) =
                   3 + (IF groups = <<>> THEN 1
                        ELSE 1 + Len(groups)
                             + (IF Len(groups) = 1
                                THEN Len(groups[1].options)
                                ELSE Len(groups[1].options)
                                     + Len(groups[2].options)))

\* a sync that returned two groups was followed by one that returned one
C7_Witness ==
    /\ last.tool = "sync_order_options"
    /\ last.args.again
    /\ Len(current_order[1].option_groups) = 1
    /\ current_order[1].quantity = 2

\* C8: whatever the number of decrease_product_quantity calls in an order
\* role, and however they interleave with increases and syncs, the product
\* quantity never goes below 1.
C8_QuantityFloor == feQuantity >= 1

\* a decrease reached the browser while the quantity was already 1
C8_Witness ==
    /\ last.tool = "decrease_product_quantity"
    /\ last.out = <<[kind |-> "ok"]>>
    /\ last.args.quantity = 1
    /\ feQuantity = 1

\* C9: the pending product is cleared whenever an order task starts, and an
\* initiate_product_order made without a successful redirect_to_product_page
\* since the last handoff fails with the missing-pending-product error.
C9_PendingClearedAtHandoff ==
    /\ agent.role \in OrderRoles => pending_product = <<>>
    /\ (last.tool = "initiate_product_order" /\ ~last.args.fresh) =>
           /\ last.result.exc = "ToolError"
           /\ last.result.msg = "No pending product found"

\* C10: the pending product changes only through a redirect_to_product_page
\* call whose redirectToPage RPC completed without error, and then holds that
\* call's product_id and product_type; failed product redirects and every
\* redirect_to_website_page call leave it as it was.
C10_PendingOnlyByProductRedirect ==
    /\ []((last.tool = "redirect_to_product_page" /\ last.result.exc = "none")
            => pending_product =
                   << [product_id |-> last.args.product_id,
                       product_type |-> last.args.product_type] >>)
    /\ [][pending_product' # pending_product =>
            /\ last'.tool = "redirect_to_product_page"
            /\ last'.out # <<>>
            /\ last'.out[1].kind # "RpcError"
            /\ last'.args.product_type \in ProductType
            /\ pending_product' =
                   << [product_id |-> last'.args.product_id,
                       product_type |-> last'.args.product_type] >>]_vars

\* a product redirect replaced an earlier pending product
C10_Witness ==
    /\ last.tool = "redirect_to_product_page"
    /\ last.result.exc = "none"
    /\ last.args.product_type = "customizable"
    /\ pending_product = << [product_id |-> 0, product_type |-> "customizable"] >>


\* the tools of an order role whose payload carries a product_type
TypedPayloadTools ==
    {"select_option", "unselect_option", "increase_product_quantity",
     "decrease_product_quantity"}

\* C11: the product type is threaded unmodified through every tool call of
\* an order role: the product_type field of every RPC payload sent by
\* select_option, unselect_option, increase_product_quantity and
\* decrease_product_quantity equals the type redirect_to_product_page stored,
\* for basic, variant and customizable alike.
C11_ProductTypeThreaded ==
    (last.tool \in TypedPayloadTools /\ last.result.rpcs # <<>>) =>
        /\ pending_product # <<>>
        /\ last.result.rpcs[1].payload.product_type
               = pending_product[1].product_type

\* C12: in FullOrder, when a successful select_option of option o is
\* followed by a successful sync_order_options, each option of the rebuilt
\* OrderState and of the returned summary has the qty the frontend reported
\* for it in the sync response, so that option o is shown as selected.
C12_SelectedShownAfterSync ==
    (/\ last.tool = "sync_order_options"
     /\ last.args.selected # <<>>
     /\ last.result.current_order # <<>>) =>
        LET groups == get(last.out[1].data, "options_groups", <<>>)
            order == current_order[1]
        IN  \A i \in 1..Len(groups) :
                \A j \in 1..Len(groups[i].options) :
                    /\ order.option_groups[i].options[j].qty
                           = groups[i].options[j].qty
                    /\ \E k \in 1..Len(last.result.ret[1].summary) :
                           LET line == last.result.ret[1].summary[k] IN
                           /\ line[1] = "option"
                           /\ line[2] = groups[i].options[j].option_name
                           /\ line[5] = groups[i].options[j].qty

\* the last call was a search whose top candidate is below the threshold
BelowThreshold(c) ==
    /\ c.tool = "search_products"
    /\ c.args.products # <<>>
    /\ c.args.products[1].similarity_score < SimilarityThreshold

\* C13 as stated: when search_products returns a top candidate whose score
\* is below the threshold, its output instructs the caller to suggest other
\* keywords and no navigation follows: no product redirect sends
\* redirectToPage and the pending product is not set.
C13_NoNavigationBelowThreshold ==
    /\ [](BelowThreshold(last) =>
            \E k \in 1..Len(last.result.ret[1]) :
                "instruction" \in DOMAIN last.result.ret[1][k])
    /\ [][BelowThreshold(last) =>
            /\ pending_product' = pending_product
            /\ (last' # last /\ last'.tool = "redirect_to_product_page")
                   => last'.result.rpcs = <<>>]_vars

\* C13: a search_products call whose top candidate is below the threshold
\* succeeds, returns the ranked candidates with their scores as the vector
\* store gave them, sends no RPC and leaves the pending product as it was.
C13_SearchNeverNavigates ==
    /\ [](BelowThreshold(last) =>
            /\ last.result.exc = "none"
            /\ last.result.rpcs = <<>>
            /\ last.result.ret = <<last.args.products>>
            /\ last.result.ret[1][1].similarity_score < SimilarityThreshold)
    /\ [][BelowThreshold(last') => pending_product' = pending_product]_vars

\* a search scored 25 while an earlier product was pending
C13_Witness ==
    /\ BelowThreshold(last)
    /\ pending_product # <<>>
    /\ last.result.ret[1][1].product_type = "customizable"

\* the tools that read the response of their RPC; the redirects ignore it
ResponseTools ==
    {"sync_order_options", "select_option", "unselect_option",
     "increase_product_quantity", "decrease_product_quantity",
     "complete_order"}

\* the RPC of call c was attempted and failed: it raised RpcError (peer
\* disconnected, remote error, response timeout), or the tool reads the
\* response and it was empty or malformed
RpcFailed(c) ==
    /\ c.tool \in RpcTools
    /\ c.out # <<>>
    /\ \/ c.out[1].kind = "RpcError"
       \/ c.tool \in ResponseTools /\ c.out[1].kind \in {"empty", "malformed"}

\* C14: for every RPC-calling tool each failure cause (RPC error or peer
\* disconnected, response timeout, empty response, malformed response) ends
\* the call with a ToolError: no other exception type and no returned value
\* escapes.
C14_SingleFailureKind ==
    RpcFailed(last) => last.result.exc = "ToolError"

\* the call returned a success payload or handed off to another agent
ReportsSuccess(c) ==
    /\ c.result.exc = "none"
    /\ \/ c.result.handoff # <<>>
       \/ "success" \notin DOMAIN c.result.ret[1]
       \/ c.result.ret[1].success

\* C15: an RPC tool returns a success payload or hands off only if its RPC
\* was dispatched to a peer and completed without error and, for the tools
\* that read the response, only if the response was not empty.
C15_NoFabricatedSuccess ==
    (last.tool \in RpcTools /\ ReportsSuccess(last)) =>
        /\ last.participants # {}
        /\ Len(last.result.rpcs) = 1
        /\ last.out # <<>>
        /\ last.out[1].kind # "RpcError"
        /\ last.tool \in ResponseTools => last.out[1].kind = "ok"

\* an increase was answered and reported as done
C15_Witness ==
    /\ last.tool = "increase_product_quantity"
    /\ ReportsSuccess(last)
    /\ last.out = <<[kind |-> "ok"]>>
    /\ feQuantity = 2

\* C16 as stated: from any role an end_session call never fails, always
\* invokes the job shutdown, after the farewell reply, and ends Terminated.
C16_EndSessionAlwaysTerminates ==
    last.tool = "end_session" =>
        /\ last.result.exc = "none"
        /\ last.result.replies = 1
        /\ last.result.shutdown
        /\ terminated

\* C16: from any role end_session invokes the job shutdown only after the
\* farewell reply has been generated, and then the conversation is
\* Terminated; when generating the reply raises, the call fails with
\* ToolError, the shutdown is not invoked and the role stays live.
\* Terminated is absorbing.
C16_EndSessionAfterFarewell ==
    /\ [](last.tool = "end_session" =>
            /\ terminated <=> last.result.shutdown
            /\ last.result.shutdown <=> last.result.replies = 1
            /\ last.result.shutdown <=> last.result.exc = "none"
            /\ last.result.exc # "none" =>
                   /\ last.result.exc = "ToolError"
                   /\ last.result.msg = "Failed to shutdown")
    /\ [](terminated => last.tool = "end_session")
    /\ [][terminated => UNCHANGED vars]_vars

\* the session was ended from the full order task
C16_Witness ==
    /\ terminated
    /\ last.tool = "end_session"
    /\ last.role = "FullOrder"

\* C17: exit_ordering_task, called in BasicOrder or FullOrder, always
\* succeeds, makes Discovery the live role with the same session state, sends
\* no RPC (no addToCart in particular) and leaves the browser's cart and
\* quantity as they were.
C17_ExitOrderingTaskFrame ==
    /\ [](last.tool = "exit_ordering_task" =>
            /\ last.role \in OrderRoles
            /\ last.result.exc = "none"
            /\ last.result.rpcs = <<>>
            /\ last.result.handoff # <<>>
            /\ last.result.handoff[1].state = PerJobState
            /\ agent.role = "Discovery")
    /\ [][(agent.role \in OrderRoles /\ last'.tool = "exit_ordering_task") =>
            /\ agent'.role = "Discovery"
            /\ agent'.state = agent.state
            /\ feCart' = feCart
            /\ feQuantity' = feQuantity
            /\ pending_product' = pending_product]_vars

\* the basic order task was left while an item was in the cart
C17_Witness ==
    /\ last.tool = "exit_ordering_task"
    /\ last.role = "BasicOrder"
    /\ agent.role = "Discovery"
    /\ feCart = 1
    /\ feQuantity = 2

\* C18: the live role starts as Discovery and changes only from Discovery to
\* BasicOrder or FullOrder by a successful initiate_product_order, and from
\* BasicOrder or FullOrder to Discovery by complete_order or
\* exit_ordering_task; never from one order role to another, and one role
\* is live at any time.
C18_RoleTransitions ==
    /\ agent.role = "Discovery"
    /\ [](agent.role \in {"Discovery", "BasicOrder", "FullOrder"})
    /\ [][agent'.role # agent.role =>
            \/ /\ agent.role = "Discovery"
               /\ agent'.role \in OrderRoles
               /\ last'.tool = "initiate_product_order"
               /\ last'.result.exc = "none"
            \/ /\ agent.role \in OrderRoles
               /\ agent'.role = "Discovery"
               /\ last'.tool \in {"complete_order", "exit_ordering_task"}
               /\ last'.result.exc = "none"]_vars

\* a second order task was started after the first one was left
C18_Witness ==
    /\ last.tool = "initiate_product_order"
    /\ agent.role = "FullOrder"
    /\ feCart = 1

\* the RPC method each tool calls
RpcMethod ==
    [tool \in RpcTools |->
        CASE tool \in {"redirect_to_product_page", "redirect_to_website_page"}
                 -> "redirectToPage"
          [] tool = "sync_order_options" -> "syncProductOptions"
          [] tool \in {"select_option", "unselect_option"}
                 -> "toggleOptionSelection"
          [] tool = "increase_product_quantity" -> "increaseProductQuantity"
          [] tool = "decrease_product_quantity" -> "decreaseProductQuantity"
          [] tool = "complete_order" -> "addToCart"]

\* C19: every tool call makes at most one RPC attempt, of its own method:
\* an RPC that failed or timed out is not tried again, and select_option,
\* unselect_option and the quantity tools send no syncProductOptions after
\* their own call.
C19_OneRpcPerCall ==
    last.tool # "none" =>
        /\ Len(last.result.rpcs) <= 1
        /\ last.tool \notin RpcTools => last.result.rpcs = <<>>
        /\ last.result.rpcs # <<>> =>
               last.result.rpcs[1].method = RpcMethod[last.tool]
        /\ (last.out # <<>> /\ last.out[1].kind = "RpcError") =>
               Len(last.result.rpcs) = 1

\* a select went through and was answered
C19_Witness ==
    /\ last.tool = "select_option"
    /\ last.out = <<[kind |-> "ok"]>>
    /\ last.result.exc = "none"
    /\ last.args.option_id = 21

\* C20: complete_order does not depend on OrderState: called in an order
\* role with a peer attached it sends addToCart, with an empty payload,
\* whether or not sync_order_options was ever called and however the last
\* sync ended or however long ago it was.
C20_CompleteOrderIgnoresSync ==
    (last.tool = "complete_order" /\ last.participants # {}) =>
        /\ last.args.synced \in {"never", "ok", "empty", "failed"}
        /\ last.result.rpcs = <<perform_rpc("addToCart", <<>>, 10)>>
        /\ last.role \in OrderRoles

\* the order was sent although the only sync, some calls ago, came back empty
C20_Witness ==
    /\ last.tool = "complete_order"
    /\ last.args.synced = "empty"
    /\ last.args.stale
    /\ last.result.rpcs # <<>>
    /\ feCart = 1

PresenceTaskNext ==
    \/ UserPresenceTask
    \/ ~presence.closed /\ Converse
    \/ ~presence.closed /\ ParticipantConnected
    \/ ~presence.closed /\ ParticipantDisconnected
    \/ ~presence.closed /\ SearchProducts

\* user_presence_task run from its creation to its end
PresenceTaskSpec == PresenceTaskInit /\ [][PresenceTaskNext]_vars

\* C21: when the user becomes away the presence timer task is started (it
\* prompts the user and closes the session after the grace window), and it
\* is cancelled when the user becomes active again before it fires.
C21_AwayStartsTimer ==
    /\ [](user_state = "away" => inactivity_task # <<>>)
    /\ [][(user_state # "away" /\ user_state' = "away") =>
            presence'.pc = "check"]_vars

\* C22: whenever the presence task closes the session the farewell reply
\* was generated before the close, and both presence checks and both waits
\* were completed before it.
C22_FarewellBeforeClose ==
    /\ [](presence.closed =>
            /\ presence.farewell
            /\ presence.checks = 2
            /\ presence.sleeps = 2)
    /\ [][(~presence.closed /\ presence'.closed) =>
            /\ presence.farewell
            /\ presence.checks = 2
            /\ presence.sleeps = 2]_vars

\* the task ran to its end and closed the session
C22_Witness ==
    /\ presence.closed
    /\ presence.pc = "done"
    /\ user_state = "away"

----------------------------------------------------------------------------
\* C23: a product type outside {basic, variant, customizable} fails the
\* call instead of being defaulted: redirect_to_product_page with such a
\* type raises before any RPC is sent and leaves the pending product as it
\* was, no stored pending product ever carries such a type, and
\* initiate_product_order_impl applied to a pending product of such a type
\* raises without a reply, a fetch or a handoff.
C23_UnknownTypeFails ==
    /\ [](\A fetch \in FetchOutcomes, id \in ProductIds \ {0} :
            LET r == initiate_product_order_impl(
                         <<>>, << [product_id |-> id,
                                   product_type |-> "combo"] >>, fetch)
            IN  /\ r.exc = "ToolError"
                /\ r.fetches = 0
                /\ r.replies = 0
                /\ r.handoff = <<>>)
    /\ [](pending_product # <<>> =>
            pending_product[1].product_type \in ProductType)
    /\ []((/\ last.tool = "redirect_to_product_page"
           /\ last.args.product_type \notin ProductType)
          => /\ last.result.exc # "none"
             /\ last.result.rpcs = <<>>
             /\ last.result.ret = <<>>)
    /\ [][(/\ last'.tool = "redirect_to_product_page"
           /\ last'.args.product_type \notin ProductType
           /\ last' # last)
          => /\ pending_product' = pending_product
             /\ agent' = agent]_vars

\* an unknown type is refused while a peer is attached and an earlier
\* redirect's pending product is kept
C23_Witness ==
    /\ last.tool = "redirect_to_product_page"
    /\ last.args.product_type = "combo"
    /\ last.participants # {}
    /\ last.result.exc = "ValueError"
    /\ pending_product # <<>>

----------------------------------------------------------------------------
\* C24: every RPC a tool call issues carries an explicit response timeout,
\* and a call whose RPC went unanswered (RpcError, the timeout included)
\* has returned as a failure.
C24_EveryRpcHasTimeout ==
    last.tool # "none" =>
        /\ \A i \in 1..Len(last.result.rpcs) :
               last.result.rpcs[i].response_timeout # <<>>
        /\ (last.out # <<>> /\ last.out[1].kind = "RpcError")
               => last.result.exc = "ToolError"

----------------------------------------------------------------------------
\* C26: the quantity of every OrderState is at least 1: of a new one, and
\* of the one every successful sync builds, whatever current_quantity the
\* response carried or left out.
C26_QuantityAtLeastOne ==
    /\ OrderState.quantity >= 1
    /\ current_order # <<>> => current_order[1].quantity >= 1

----------------------------------------------------------------------------
\* C27: within one activation of an order role at most one addToCart
\* succeeds: once addToCart came back with a non-empty response, the live
\* agent no longer offers complete_order.
C27_OneAddToCartPerActivation ==
    (/\ last.tool = "complete_order"
     /\ last.out = << [kind |-> "ok"] >>)
    => ~offered("complete_order")

----------------------------------------------------------------------------
\* C28: a tool call that fails leaves the live agent and the pending
\* product as they were; in particular initiate_product_order failing on
\* the fetch stays in Discovery with the same pending product.
C28_FailureChangesNothing ==
    /\ [][(/\ last' # last
           /\ last'.result.exc # "none")
          => /\ agent' = agent
             /\ pending_product' = pending_product]_vars
    /\ []((/\ last.tool = "initiate_product_order"
           /\ last.result.exc # "none")
          => /\ last.role = "Discovery"
             /\ last.result.handoff = <<>>)

\* the fetch failed after a redirect stored a pending product
C28_Witness ==
    /\ last.tool = "initiate_product_order"
    /\ last.result.msg = "Failed to fetch product details"
    /\ last.result.fetches = 1
    /\ agent.role = "Discovery"
    /\ pending_product # <<>>

----------------------------------------------------------------------------
\* C29: a pending product stored by a successful redirect passes the
\* completeness gate of initiate_product_order, whatever its product_id,
\* 0 included: the call never answers "Incomplete pending product data".
C29_StoredPendingIsComplete ==
    pending_product # <<>> =>
        \A fetch \in FetchOutcomes :
            initiate_product_order_impl(agent.chat_ctx, pending_product,
                                        fetch).msg
                # "Incomplete pending product data"

----------------------------------------------------------------------------
\* C30: the live agent always holds the conversation's PerJobState, never
\* None, at start and after every handoff.
C30_LiveAgentHoldsState ==
    /\ agent.state = PerJobState
    /\ agent.state # <<>>
    /\ (last.tool # "none" /\ last.result.handoff # <<>>)
           => last.result.handoff[1].state = PerJobState

\* back in Discovery after an order role was left
C30_Witness ==
    /\ last.tool = "exit_ordering_task"
    /\ last.role \in OrderRoles
    /\ last.result.handoff # <<>>
    /\ agent.role = "Discovery"
    /\ agent.state = PerJobState

----------------------------------------------------------------------------
\* C25: jobs are isolated: a tool call made in one job leaves every other
\* job's pending product, live agent and OrderState as they were, and
\* every RPC a job issues is addressed to the browser of its own room.
C25_JobsIsolated ==
    /\ [][\A job \in Jobs :
            (job_last' # job_last /\ job_last'.job # job)
            => /\ jobs'[job].pending_product = jobs[job].pending_product
               /\ jobs'[job].agent = jobs[job].agent
               /\ jobs'[job].current_order = jobs[job].current_order]_vars
    /\ [](job_last.job # "none" =>
            \A d \in job_last.destinations : d = browser(job_last.job))

\* job A redirected its browser while job B, with another pending product,
\* is in an order role with a synced OrderState
C25_Witness ==
    /\ job_last.job = "A"
    /\ job_last.tool = "redirect_to_product_page"
    /\ job_last.destinations = {browser("A")}
    /\ jobs["A"].pending_product # <<>>
    /\ jobs["B"].pending_product # <<>>
    /\ jobs["A"].pending_product # jobs["B"].pending_product
    /\ jobs["B"].agent.role \in OrderRoles
    /\ jobs["B"].current_order # <<>>
====
